---- MODULE Spec2Model ----
(***************************************************************************)
(* jixer_sync: a uniform client for host-search engines (Shodan, Netlas,   *)
(* Zoomeye, Fofa).  The model follows src/jixer_sync/base.py (BaseEngine)  *)
(* and src/jixer-sync/engine.py (the four engine classes): one engine      *)
(* instance, its requests session, and the synchronous call fetch_ip_str,  *)
(* cut into steps at the points where it waits for the network; the pure   *)
(* methods called on their own; the request builder on dict objects; and   *)
(* two instances whose calls interleave.                                   *)
(***************************************************************************)
EXTENDS Integers, Sequences, FiniteSets, TLC

(***************************************************************************)
(* Bounds of the model.                                                    *)
(***************************************************************************)
\* the largest number of pages a modelled count reply makes the fetch plan
MaxPlannedPages == 2
\* the largest number of items in one page's result list
MaxItems == 2
\* the planner is tried on every total count 0..MaxCount (and around the cap)
MaxCount == 45
\* the planner is tried on totals this far on each side of the page cap
CapMargin == 2
\* the longest query string the query encoder is tried on
MaxQueryLen == 4
\* the request builder is tried on totals of up to this many pages
MaxBuildPages == 3
\* the builder calls (get_total_count, prepare_request_list) made in a row
MaxBuildCalls == 2
\* the built requests a caller changes afterwards
MaxMutations == 1
\* the largest number of pages a fetch of two interleaved instances plans
MaxPairPages == 1

(***************************************************************************)
(* Python values.  A JSON leaf that may end up in the output carries its   *)
(* Python type, so that a str, None and a tuple are different values.      *)
(***************************************************************************)
Str(s) == [type |-> "str", val |-> s]
NoneVal == [type |-> "NoneType", val |-> "None"]
\* the tuple (ip, domain) of the BaseEngine.parse_ip_str docstring
IdentityRecord(ip, domain) == [type |-> "tuple", val |-> <<ip, domain>>]

\* a call's outcome: a returned value, or the exception that left it
Return(v) == [exc |-> "", val |-> v]
Raise(e) == [exc |-> e, val |-> <<>>]
\* an outcome is the returned value v
Returned(outcome, v) == outcome.exc = "" /\ outcome.val = v

\* dict.get(k): None when the key is missing
DictGet(d, k) == IF k \in DOMAIN d THEN d[k] ELSE NoneVal
\* d[k] = v on a copy of d (dict.copy() then item assignment, or update)
DictSet(d, k, v) == (k :> v) @@ d

Min(a, b) == IF a < b THEN a ELSE b
\* math.ceil(a / b) for b > 0: the quotient is exact in a double for every
\* count whose page number is below the cap
math_ceil_div(a, b) == -((-a) \div b)
\* range(start, stop, step) for step > 0, as the sequence it iterates
range(start, stop, step) ==
    LET n == IF stop > start THEN math_ceil_div(stop - start, step) ELSE 0
    IN  [i \in 1..n |-> start + (i - 1) * step]
\* urljoin(base, rel) for a base that ends in "/" and a relative name
urljoin(base, rel) == base \o rel

(***************************************************************************)
(* Engine D's query encoder: standard Base64 of the query's bytes.  A      *)
(* query is a sequence of characters of QueryAlphabet.                     *)
(***************************************************************************)
QueryAlphabet == {"i", "p", ":", "1", "."}
\* str.encode(): the byte of each (ASCII) character
Ord(c) == CASE c = "i" -> 105 [] c = "p" -> 112 [] c = ":" -> 58
            [] c = "1" -> 49 [] c = "." -> 46
B64Alphabet ==
    << "A","B","C","D","E","F","G","H","I","J","K","L","M","N","O","P",
       "Q","R","S","T","U","V","W","X","Y","Z","a","b","c","d","e","f",
       "g","h","i","j","k","l","m","n","o","p","q","r","s","t","u","v",
       "w","x","y","z","0","1","2","3","4","5","6","7","8","9","+","/" >>
\* (a variant that pads a short group with "A", the digit of six zero bits)
b64group_zero_padded(b) ==
    LET b1 == b[1]
        b2 == IF Len(b) >= 2 THEN b[2] ELSE 0
        b3 == IF Len(b) >= 3 THEN b[3] ELSE 0
        n  == b1 * 65536 + b2 * 256 + b3
    IN  << B64Alphabet[(n \div 262144) + 1],
           B64Alphabet[((n \div 4096) % 64) + 1],
           B64Alphabet[((n \div 64) % 64) + 1],
           B64Alphabet[(n % 64) + 1] >>
\* one group of 1..3 bytes becomes 4 characters, padded with "="
b64group(b) ==
    LET b1 == b[1]
        b2 == IF Len(b) >= 2 THEN b[2] ELSE 0
        b3 == IF Len(b) >= 3 THEN b[3] ELSE 0
        n  == b1 * 65536 + b2 * 256 + b3
    IN  << B64Alphabet[(n \div 262144) + 1],
           B64Alphabet[((n \div 4096) % 64) + 1],
           IF Len(b) >= 2 THEN B64Alphabet[((n \div 64) % 64) + 1] ELSE "=",
           IF Len(b) >= 3 THEN B64Alphabet[(n % 64) + 1] ELSE "=" >>
RECURSIVE b64encode(_)
b64encode(bytes) ==
    IF bytes = <<>> THEN <<>>
    ELSE LET k == Min(3, Len(bytes))
         IN  b64group(SubSeq(bytes, 1, k))
               \o b64encode(SubSeq(bytes, k + 1, Len(bytes)))
query_to_bs64(query_str) ==
    b64encode([i \in 1..Len(query_str) |-> Ord(query_str[i])])

(***************************************************************************)
(* Engine instances: the attributes each constructor sets.                 *)
(***************************************************************************)
Engines == {"shodan", "netlas", "zoomeye", "fofa"}
ApiKey == "KEY"
\* the key a second instance is constructed with
PeerApiKey == "KEY2"
Email == "me@example.org"

BaseEngine(api_key) ==
    [ MAX_RETRY_ATTEMPTS |-> 10,
      RESULTS_PER_PAGE   |-> 100,
      MAX_PAGES_COUNT    |-> 2500,
      BASE_URL           |-> "",
      COUNT_ENDPOINT     |-> "",
      SEARCH_ENDPOINT    |-> "",
      PARAMS             |-> <<>>,
      HEADERS            |-> <<>>,
      _TOTAL_ITEMS_KWORD |-> "",
      _PAGE_KWORD        |-> "page",
      _QUERY_KWORD       |-> "",
      _COUNT_KWORD       |-> "",
      _IP_KWORD          |-> "",
      api_key            |-> api_key ]

ShodanEngine(api_key) ==
    LET base == BaseEngine(api_key)
        url  == "https://api.shodan.io/shodan/host/"
    IN  [ base EXCEPT
            !.PARAMS             = DictSet(base.PARAMS, "key", Str(api_key)),
            !.BASE_URL           = url,
            !.COUNT_ENDPOINT     = urljoin(url, "count"),
            !.SEARCH_ENDPOINT    = urljoin(url, "search"),
            !._QUERY_KWORD       = "query",
            !._COUNT_KWORD       = "total",
            !._TOTAL_ITEMS_KWORD = "matches" ]

NetlasEngine(api_key) ==
    LET base == BaseEngine(api_key)
        url  == "https://app.netlas.io/api/"
    IN  [ base EXCEPT
            !.BASE_URL           = url,
            !.COUNT_ENDPOINT     = urljoin(url, "responses_count"),
            !.SEARCH_ENDPOINT    = urljoin(url, "responses"),
            !.HEADERS            = DictSet(base.HEADERS, "X-API-Key", Str(api_key)),
            !.RESULTS_PER_PAGE   = 20,
            !.PARAMS             = [source_type |-> Str("include"),
                                    fields |-> Str("ip")],
            !._IP_KWORD          = "ip",
            !._COUNT_KWORD       = "count",
            !._PAGE_KWORD        = "start",
            !._QUERY_KWORD       = "q",
            !._TOTAL_ITEMS_KWORD = "items" ]

\* the constructor sets _RESULTS_PER_PAGE, a new attribute: RESULTS_PER_PAGE,
\* the one page_iterator reads, keeps the base value
ZoomeyeEngine(api_key) ==
    LET base == BaseEngine(api_key)
        url  == "https://api.zoomeye.org/host/"
    IN  ("_RESULTS_PER_PAGE" :> 20) @@
        [ base EXCEPT
            !.BASE_URL           = url,
            !.COUNT_ENDPOINT     = urljoin(url, "search"),
            !.SEARCH_ENDPOINT    = urljoin(url, "search"),
            !.HEADERS            = DictSet(base.HEADERS, "API-KEY", Str(api_key)),
            !._IP_KWORD          = "ip",
            !._COUNT_KWORD       = "total",
            !._QUERY_KWORD       = "query",
            !._TOTAL_ITEMS_KWORD = "matches" ]

FofaEngine(api_key, email) ==
    LET base == BaseEngine(api_key)
        url  == "https://fofa.info/api/v1/"
    IN  [ base EXCEPT
            !.BASE_URL           = url,
            !.COUNT_ENDPOINT     = urljoin(url, "search/all"),
            !.SEARCH_ENDPOINT    = urljoin(url, "search/all"),
            !.RESULTS_PER_PAGE   = 1000,
            !._COUNT_KWORD       = "size",
            !._QUERY_KWORD       = "qbase64",
            !._TOTAL_ITEMS_KWORD = "results",
            !.PARAMS             = [email |-> Str(email),
                                    key   |-> Str(api_key),
                                    size  |-> 1000] ]

\* the instance a class's constructor builds
NewEngine(cls) ==
    CASE cls = "shodan"  -> ShodanEngine(ApiKey)
      [] cls = "netlas"  -> NetlasEngine(ApiKey)
      [] cls = "zoomeye" -> ZoomeyeEngine(ApiKey)
      [] cls = "fofa"    -> FofaEngine(ApiKey, Email)

\* the instance a class's constructor builds for an API key
Construct(c, api_key) ==
    CASE c = "shodan"  -> ShodanEngine(api_key)
      [] c = "netlas"  -> NetlasEngine(api_key)
      [] c = "zoomeye" -> ZoomeyeEngine(api_key)
      [] c = "fofa"    -> FofaEngine(api_key, Email)

\* Retry(total=5, backoff_factor=2, status_forcelist=[500, 502, 503, 504]),
\* mounted on https:// (every engine's endpoints are https)
RETRY_TOTAL == 5
STATUS_FORCELIST == {500, 502, 503, 504}

(***************************************************************************)
(* Query encoding, pagination planner, request builder.                    *)
(***************************************************************************)
BaseEngine_get_query(query) == query
FofaEngine_get_query(query) == query_to_bs64(query)
get_query(cls, query) ==
    IF cls = "fofa" THEN FofaEngine_get_query(query)
    ELSE BaseEngine_get_query(query)

\* (a variant without the MAX_PAGES_COUNT cap)
BaseEngine_page_iterator_uncapped(self, total_count) ==
    LET total_page == math_ceil_div(total_count, self.RESULTS_PER_PAGE)
    IN  range(1, total_page + 1, 1)
BaseEngine_page_iterator(self, total_count) ==
    LET total_page == math_ceil_div(total_count, self.RESULTS_PER_PAGE)
    IN  range(1, Min(total_page, self.MAX_PAGES_COUNT) + 1, 1)
NetlasEngine_page_iterator(self, total_count) ==
    LET total_page == math_ceil_div(total_count, self.RESULTS_PER_PAGE)
    IN  range(0, Min(total_page, self.MAX_PAGES_COUNT) * self.RESULTS_PER_PAGE,
              self.RESULTS_PER_PAGE)
page_iterator(cls, self, total_count) ==
    IF cls = "netlas" THEN NetlasEngine_page_iterator(self, total_count)
    ELSE BaseEngine_page_iterator(self, total_count)

\* requests.Request(method, url, params, headers).prepare(): the prepared
\* request holds its own copy of the parameters and headers
Request(method, url, params, headers) ==
    [method |-> method, url |-> url, params |-> params, headers |-> headers]

\* the loop of prepare_request_list: params is copied and updated per page
RECURSIVE request_loop(_, _, _, _)
request_loop(self, params, cursors, request_list) ==
    IF cursors = <<>> THEN request_list
    ELSE LET p == DictSet(params, self._PAGE_KWORD, Head(cursors))
         IN  request_loop(self, p, Tail(cursors),
                 Append(request_list,
                        Request("GET", self.SEARCH_ENDPOINT, p, self.HEADERS)))
\* (a variant that leaves the query out of the parameters)
prepare_request_list_without_query(cls, self, query, total_count) ==
    request_loop(self, self.PARAMS, page_iterator(cls, self, total_count), <<>>)
prepare_request_list(cls, self, query, total_count) ==
    LET params == DictSet(self.PARAMS, self._QUERY_KWORD, get_query(cls, query))
    IN  request_loop(self, params, page_iterator(cls, self, total_count), <<>>)

\* (a variant whose parameters carry a page cursor)
count_request_with_cursor(cls, self, query) ==
    Request("GET", self.COUNT_ENDPOINT,
            DictSet(DictSet(self.PARAMS, self._QUERY_KWORD,
                            get_query(cls, query)),
                    self._PAGE_KWORD, 1),
            self.HEADERS)
\* the request get_total_count sends with session.get
count_request(cls, self, query) ==
    Request("GET", self.COUNT_ENDPOINT,
            DictSet(self.PARAMS, self._QUERY_KWORD, get_query(cls, query)),
            self.HEADERS)

(***************************************************************************)
(* Result normalizers.  Each builds the list of the items' IPs, raising at *)
(* the first item the expression fails on, and returns set(list).          *)
(***************************************************************************)
set(l) == {l[i] : i \in 1..Len(l)}
\* the list comprehension [f(_) for _ in results]: f's first exception, or
\* the list of the values
comprehension(outs) ==
    IF \E i \in 1..Len(outs) : outs[i].exc # ""
    THEN LET first == CHOOSE i \in 1..Len(outs) :
                         /\ outs[i].exc # ""
                         /\ \A j \in 1..(i - 1) : outs[j].exc = ""
         IN  Raise(outs[first].exc)
    ELSE Return([i \in 1..Len(outs) |-> outs[i].val])
set_of(listed) == IF listed.exc # "" THEN listed ELSE Return(set(listed.val))

\* (a variant that reads the key 'ip')
ShodanEngine_parse_ip_str_wrong_key(results) ==
    set_of(comprehension(
        [i \in 1..Len(results) |-> Return(DictGet(results[i], "ip"))]))
\* set([_.get('ip_str') for _ in results])
ShodanEngine_parse_ip_str(results) ==
    set_of(comprehension(
        [i \in 1..Len(results) |-> Return(DictGet(results[i], "ip_str"))]))
\* set([_.get('data').get('ip') for _ in results]): None has no get
NetlasEngine_parse_ip_str(results) ==
    set_of(comprehension(
        [i \in 1..Len(results) |->
            IF "data" \in DOMAIN results[i]
            THEN Return(DictGet(results[i].data, "ip"))
            ELSE Raise("AttributeError")]))
\* set([_.get('ip') for _ in results])
ZoomeyeEngine_parse_ip_str(results) ==
    set_of(comprehension(
        [i \in 1..Len(results) |-> Return(DictGet(results[i], "ip"))]))
\* set([_[1] for _ in results]): index 1 is the second element
FofaEngine_parse_ip_str(results) ==
    set_of(comprehension(
        [i \in 1..Len(results) |->
            IF Len(results[i]) >= 2 THEN Return(results[i][2])
            ELSE Raise("IndexError")]))
parse_ip_str(cls, results) ==
    CASE cls = "shodan"  -> ShodanEngine_parse_ip_str(results)
      [] cls = "netlas"  -> NetlasEngine_parse_ip_str(results)
      [] cls = "zoomeye" -> ZoomeyeEngine_parse_ip_str(results)
      [] cls = "fofa"    -> FofaEngine_parse_ip_str(results)

(***************************************************************************)
(* The network: what one HTTP attempt can bring back.                      *)
(***************************************************************************)
IPs == {"1.1.1.1", "8.8.8.8"}
Queries == { <<"i", "p", ":", "1">>, <<"1", ".", "1">> }

\* the raw items an engine's search endpoint lists: well-formed ones, and
\* ones that lack the identity field
Items(cls) ==
    CASE cls = "shodan"  ->
           {[ip_str |-> Str(ip), port |-> 80] : ip \in IPs} \cup {[port |-> 80]}
      [] cls = "netlas"  ->
           {[data |-> [ip |-> Str(ip)]] : ip \in IPs}
             \cup {[data |-> [port |-> 80]], [port |-> 80]}
      [] cls = "zoomeye" ->
           {[ip |-> Str(ip), port |-> 80] : ip \in IPs} \cup {[port |-> 80]}
      [] cls = "fofa"    ->
           {<<Str("host"), Str(ip)>> : ip \in IPs} \cup {<<Str("host")>>}
ItemLists(cls) == UNION {[1..n -> Items(cls)] : n \in 0..MaxItems}
\* the items the modelled search endpoint lists in a page: for every engine
\* two well-formed items and one without the identity field
PageItems(cls) ==
    IF cls = "netlas" THEN Items(cls) \ {[data |-> [port |-> 80]]}
    ELSE Items(cls)
PageItemLists(cls) == UNION {[1..n -> PageItems(cls)] : n \in 0..MaxItems}

\* a response body: text that is JSON (json holds the decoded object) or not
Json(obj) == [valid |-> TRUE, json |-> obj]
NotJson == [valid |-> FALSE, json |-> <<>>]
ErrorObject == [error |-> Str("denied")]

\* the totals the count endpoint reports: 0, and one total per planned
\* page number 1..MaxPlannedPages
CountValues(self) ==
    {0} \cup {(k - 1) * self.RESULTS_PER_PAGE + 1 : k \in 1..MaxPlannedPages}
CountBodies(self) ==
    {Json(self._COUNT_KWORD :> n) : n \in CountValues(self)}
      \cup {Json(ErrorObject), NotJson}
PageBodies(cls, self) ==
    {Json(self._TOTAL_ITEMS_KWORD :> l) : l \in PageItemLists(cls)}
      \cup {Json(ErrorObject), NotJson}

\* one attempt: no response at all (connection error, timeout), or a
\* response with a status and a body
NoResponse == [err |-> TRUE, status |-> 0, body |-> NotJson]
Response(status, body) == [err |-> FALSE, status |-> status, body |-> body]
ErrorStatuses == {404, 503}
Attempts(bodies) ==
    {NoResponse} \cup {Response(200, b) : b \in bodies}
      \cup {Response(st, NotJson) : st \in ErrorStatuses}
NoAttempt == [err |-> FALSE, status |-> 0, body |-> NotJson]

(***************************************************************************)
(* The transport session (requests.Session with the Retry adapter) and     *)
(* the try block both request sites share.                                 *)
(***************************************************************************)
\* urllib3 retries an attempt that brought a connection error or a status
\* of status_forcelist
Retriable(raw) == raw.err \/ raw.status \in STATUS_FORCELIST
\* (a variant that lets an exhausted Retry object retry once more)
RetryLeft_inclusive(total) == total >= 0
\* Retry.increment: total - 1, exhausted once it is below 0
RetryLeft(total) == total > 0
\* session.get / session.send once the attempts are over: the response, or
\* ConnectionError / RetryError (both RequestException)
session_send(raw) ==
    IF raw.err THEN Raise("ConnectionError")
    ELSE IF raw.status \in STATUS_FORCELIST THEN Raise("RetryError")
    ELSE Return(raw)
\* response.raise_for_status()
raise_for_status(response) ==
    IF response.status >= 400 THEN Raise("HTTPError") ELSE Return(response)
\* response.json(): requests.exceptions.JSONDecodeError, a RequestException
\* (requests 2.27 and later), when the body is not JSON
response_json(response) ==
    IF response.body.valid THEN Return(response.body.json)
    ELSE Raise("JSONDecodeError")
\* obj[key]
subscript(obj, key) ==
    IF key \in DOMAIN obj THEN Return(obj[key]) ELSE Raise("KeyError")
\* (a variant that catches requests.HTTPError only)
RequestException_HTTPErrorOnly == {"HTTPError"}
\* except requests.RequestException
RequestException ==
    {"ConnectionError", "RetryError", "HTTPError", "JSONDecodeError"}
\* (a variant whose fallback value is -1)
get_total_count_minus_one(got) == IF got.exc = "" THEN got.val ELSE -1
\* what get_total_count returns once its try block ended without an
\* exception or with one the except clause caught: the count, or 0
get_total_count(got) == IF got.exc = "" THEN got.val ELSE 0
\* the statements of the try block: send, raise_for_status, json()[key]
try_block(raw, key) ==
    LET sent_ == session_send(raw)
    IN  IF sent_.exc # "" THEN sent_
        ELSE LET checked == raise_for_status(sent_.val)
             IN  IF checked.exc # "" THEN checked
                 ELSE LET decoded == response_json(checked.val)
                      IN  IF decoded.exc # "" THEN decoded
                          ELSE subscript(decoded.val, key)

(***************************************************************************)
(* State.                                                                  *)
(***************************************************************************)
VARIABLES
    cls,           \* the engine's class
    self,          \* the engine instance's attributes
    pc,            \* where fetch_ip_str stands: idle, count, page, done, raised
    query,         \* the argument of the running fetch_ip_str call
    total_count,   \* _fetch_all's total_count (-1: not yet known)
    pages,         \* _fetch_all's pages, the prepared requests
    cur,           \* the loop's position in pages (enumerate's count)
    responses,     \* _fetch_all's responses, the aggregate
    fetched,       \* what _fetch_all returned or raised
    result,        \* what fetch_ip_str returned or raised
    parsed,        \* the arguments parse_ip_str was called with in this call
    closes,        \* session.close() calls since the call began
    sent,          \* the requests handed to the session since the call began
    replies,       \* what the last attempt of each of them brought back
    retry_total,   \* inside one session.send: the Retry object's total
    attempts,      \* inside one session.send: the attempts made
    last_attempt,  \* inside one session.send: what the last attempt brought
    arg,           \* the argument of a direct call of a method
    out,           \* and what that call returned
    heap,          \* the dict objects of the process, by address
    sessions,      \* the requests.Session objects, by address: what each
                   \* was asked to do since the last call on it began
    me,            \* the addresses of self.PARAMS, self.HEADERS, self.session
    other,         \* a second engine instance, while it is not running
    built,         \* the prepared requests a caller holds
    calls          \* the number of builder calls made

vars == << cls, self, pc, query, total_count, pages, cur, responses,
           fetched, result, parsed, closes, sent, replies, retry_total, attempts, last_attempt,
           arg, out, heap, sessions, me, other, built, calls >>
engine_vars == << cls, self >>
fetch_vars == << pc, query, total_count, pages, cur, responses, fetched,
                 result, parsed, closes, sent, replies, sessions >>
object_vars == << heap, me, other, built, calls >>
session_vars == << retry_total, attempts, last_attempt >>
direct_vars == << arg, out >>

(***************************************************************************)
(* Objects.  A dict or a Session is an object with an address; an engine   *)
(* instance holds the addresses of its PARAMS, HEADERS and session.        *)
(***************************************************************************)
\* (a variant in which every instance gets the one dict of its class)
dict_new_shared(h) ==
    IF h = <<>> THEN [heap |-> << <<>> >>, ref |-> 1]
    ELSE [heap |-> h, ref |-> 1]
\* {}: a new, empty dict
dict_new(h) == [heap |-> Append(h, <<>>), ref |-> Len(h) + 1]
\* d[k] = v, d.update(...) and the constructors' assignments: the object at
\* ref changes, for every holder of ref
dict_update(h, ref, d) == [h EXCEPT ![ref] = d @@ @]
\* requests.Session(): a new session object
session_new(ss) == [sessions |-> Append(ss, <<>>), ref |-> Len(ss) + 1]
\* an engine's constructor: new PARAMS and HEADERS dicts, filled by the
\* class, and a new session
new_engine(h, ss, c, api_key) ==
    LET e  == Construct(c, api_key)
        p  == dict_new(h)
        hd == dict_new(p.heap)
        s  == session_new(ss)
    IN  [ heap     |-> dict_update(dict_update(hd.heap, p.ref, e.PARAMS),
                                   hd.ref, e.HEADERS),
          sessions |-> s.sessions,
          me       |-> [PARAMS |-> p.ref, HEADERS |-> hd.ref, session |-> s.ref] ]
\* the attributes of an instance as its methods read them: self.PARAMS and
\* self.HEADERS are the dicts now at its addresses
view(h, refs, e) ==
    [e EXCEPT !.PARAMS = h[refs.PARAMS], !.HEADERS = h[refs.HEADERS]]

\* what a session object is asked to do
SendEvent(request) == [op |-> "send", request |-> request]
CloseEvent == [op |-> "close"]
\* n calls of session.close(), then the requests given
session_log(ss, ref, n, requests) ==
    [ss EXCEPT ![ref] = @ \o [k \in 1..n |-> CloseEvent]
                          \o [k \in 1..Len(requests) |-> SendEvent(requests[k])]]
NoPeer == [cls |-> ""]

Pending == [exc |-> "pending", val |-> <<>>]
Sent(kind, request, closed) ==
    [kind |-> kind, request |-> request, closes |-> closed]

\* an engine of some class has been constructed, the only one
EngineInit ==
    /\ cls \in Engines
    /\ self = NewEngine(cls)
    /\ LET o == new_engine(<<>>, <<>>, cls, ApiKey)
       IN  /\ heap = o.heap
           /\ me = o.me
    /\ other = NoPeer
    /\ built = <<>>
    /\ calls = 0
\* no fetch_ip_str call has been made
NoCall ==
    /\ pc = "idle"
    /\ query = <<>>
    /\ total_count = -1
    /\ pages = <<>>
    /\ cur = 0
    /\ responses = <<>>
    /\ fetched = Pending
    /\ result = Pending
    /\ parsed = <<>>
    /\ closes = 0
    /\ sent = <<>>
    /\ replies = <<>>
FetchInit ==
    /\ NoCall
    /\ sessions = new_engine(<<>>, <<>>, cls, ApiKey).sessions
\* no request is inside session.send
SessionInit ==
    /\ retry_total = RETRY_TOTAL
    /\ attempts = 0
    /\ last_attempt = NoAttempt
Init ==
    /\ EngineInit
    /\ FetchInit
    /\ SessionInit
    /\ arg = <<>>
    /\ out = Pending

(***************************************************************************)
(* fetch_ip_str, cut where it waits for the session.  session.get and      *)
(* session.send are one step each here: raw is what the last attempt of    *)
(* the request brought back.                                               *)
(***************************************************************************)
\* fetch_ip_str(q) -> _fetch_all -> get_total_count, up to session.get
Call(q) ==
    /\ pc \in {"idle", "done", "raised"}
    /\ pc' = "count"
    /\ query' = q
    /\ total_count' = -1
    /\ pages' = <<>>
    /\ cur' = 0
    /\ responses' = <<>>
    /\ fetched' = Pending
    /\ result' = Pending
    /\ parsed' = <<>>
    /\ closes' = 0
    /\ sent' = << Sent("count", count_request(cls, self, q), 0) >>
    /\ sessions' = [sessions EXCEPT ![me.session] =
                       << SendEvent(count_request(cls, self, q)) >>]
    /\ replies' = <<>>
    /\ UNCHANGED << engine_vars, object_vars, session_vars, direct_vars >>

\* (a variant that normalizes the aggregate as it was before the last page)
Finish_without_last_page(all, closed) ==
    /\ responses' = all
    /\ closes' = closed
    /\ sessions' = session_log(sessions, me.session, closed - closes, <<>>)
    /\ fetched' = Return(all)
    /\ parsed' = Append(parsed, responses)
    /\ result' = parse_ip_str(cls, responses)
    /\ pc' = IF result'.exc = "" THEN "done" ELSE "raised"
    /\ UNCHANGED << cur, sent >>
\* _fetch_all returns responses; fetch_ip_str's last statements:
\* parse_ip_str(responses), return
Finish(all, closed) ==
    /\ responses' = all
    /\ closes' = closed
    /\ sessions' = session_log(sessions, me.session, closed - closes, <<>>)
    /\ fetched' = Return(all)
    /\ parsed' = Append(parsed, all)
    /\ result' = parse_ip_str(cls, all)
    /\ pc' = IF result'.exc = "" THEN "done" ELSE "raised"
    /\ UNCHANGED << cur, sent >>

\* (a variant in which an exception leaves the block without the close)
Propagate_without_close(e) ==
    /\ closes' = closes
    /\ sessions' = sessions
    /\ fetched' = Raise(e)
    /\ result' = Raise(e)
    /\ pc' = "raised"
    /\ UNCHANGED << cur, sent, responses, parsed >>
\* an exception leaves the with block (which closes the session), then
\* _fetch_all and fetch_ip_str
Propagate(e) ==
    /\ closes' = closes + 1
    /\ sessions' = session_log(sessions, me.session, 1, <<>>)
    /\ fetched' = Raise(e)
    /\ result' = Raise(e)
    /\ pc' = "raised"
    /\ UNCHANGED << cur, sent, responses, parsed >>

\* session.send(pages[i]) is entered
SendPage(i, closed) ==
    /\ pc' = "page"
    /\ cur' = i
    /\ closes' = closed
    /\ sent' = Append(sent, Sent("page", pages'[i], closed))
    /\ sessions' = session_log(sessions, me.session, closed - closes,
                               << pages'[i] >>)
    /\ UNCHANGED << fetched, result, parsed >>

\* the count request ends: the rest of get_total_count, then _fetch_all up
\* to the first session.send (or to its return), then fetch_ip_str's end
CountReply(raw) ==
    /\ pc = "count"
    /\ replies' = Append(replies, raw)
    /\ UNCHANGED << engine_vars, object_vars, session_vars, direct_vars, query >>
    /\ LET got == try_block(raw, self._COUNT_KWORD)
       IN  IF got.exc # "" /\ got.exc \notin RequestException
           THEN /\ Propagate(got.exc)
                /\ UNCHANGED << total_count, pages >>
           ELSE LET count == get_total_count(got)
                IN  /\ total_count' = count
                    /\ IF count = 0
                       THEN /\ pages' = <<>>
                            /\ Finish(<<>>, closes + 1)
                       ELSE /\ pages' = prepare_request_list(cls, self, query, count)
                            /\ IF pages' = <<>>
                               THEN Finish(<<>>, closes + 2)
                               ELSE /\ SendPage(1, closes + 1)
                                    /\ UNCHANGED responses

\* a page request ends: the rest of the loop body, then the next
\* session.send, or the end of the loop, of _fetch_all and of fetch_ip_str
PageReply(raw) ==
    /\ pc = "page"
    /\ replies' = Append(replies, raw)
    /\ UNCHANGED << engine_vars, object_vars, session_vars, direct_vars, query,
                    total_count, pages >>
    /\ LET got == try_block(raw, self._TOTAL_ITEMS_KWORD)
       IN  IF got.exc # "" /\ got.exc \notin RequestException
           THEN Propagate(got.exc)
           ELSE LET all == IF got.exc = "" /\ got.val # <<>>
                           THEN responses \o got.val
                           ELSE responses
                IN  IF cur < Len(pages)
                    THEN /\ SendPage(cur + 1, closes)
                         /\ responses' = all
                    ELSE Finish(all, closes + 1)

Next ==
    \/ \E q \in Queries : Call(q)
    \/ \E raw \in Attempts(CountBodies(self)) : CountReply(raw)
    \/ \E raw \in Attempts(PageBodies(cls, self)) : PageReply(raw)

Spec == Init /\ [][Next]_vars

(***************************************************************************)
(* Inside one session.get / session.send: the adapter's retry loop.        *)
(***************************************************************************)
SessionStart ==
    /\ EngineInit
    /\ FetchInit
    /\ SessionInit
    /\ arg \in {count_request(cls, self, q) : q \in Queries}
    /\ out = Pending

\* an attempt fails in a way the Retry object covers and the object is not
\* exhausted: the request is attempted again
Retry(raw) ==
    /\ out.exc = "pending"
    /\ Retriable(raw)
    /\ RetryLeft(retry_total)
    /\ retry_total' = retry_total - 1
    /\ attempts' = attempts + 1
    /\ last_attempt' = raw
    /\ UNCHANGED << engine_vars, object_vars, fetch_vars, direct_vars >>

\* an attempt ends the call: its response is returned, or the exception of
\* the exhausted Retry object is raised
Complete(raw) ==
    /\ out.exc = "pending"
    /\ ~(Retriable(raw) /\ RetryLeft(retry_total))
    /\ attempts' = attempts + 1
    /\ last_attempt' = raw
    /\ out' = session_send(raw)
    /\ UNCHANGED << engine_vars, object_vars, fetch_vars, retry_total, arg >>

SessionNext ==
    \/ \E raw \in Attempts(CountBodies(self)) : Retry(raw)
    \/ \E raw \in Attempts(CountBodies(self)) : Complete(raw)

SpecSession == SessionStart /\ [][SessionNext]_vars

(***************************************************************************)
(* Direct calls of the pure methods: the pagination planner on a total     *)
(* count, a result normalizer on a list of raw items.                      *)
(***************************************************************************)
\* the totals the planner is called with: the small ones, and the ones
\* around MAX_PAGES_COUNT full pages
PlanTotals(e) ==
    (0..MaxCount) \cup
    { (e.MAX_PAGES_COUNT + d) * e.RESULTS_PER_PAGE + r :
          d \in (0 - CapMargin)..CapMargin, r \in {0, 1} }
PlanStart ==
    /\ EngineInit
    /\ FetchInit
    /\ SessionInit
    /\ arg \in PlanTotals(self)
    /\ out = Pending
\* engine.page_iterator(arg), its range listed
CallPageIterator ==
    /\ out.exc = "pending"
    /\ out' = Return(page_iterator(cls, self, arg))
    /\ UNCHANGED << engine_vars, object_vars, fetch_vars, session_vars, arg >>
SpecPlan == PlanStart /\ [][CallPageIterator]_vars

NormStart ==
    /\ EngineInit
    /\ FetchInit
    /\ SessionInit
    /\ arg \in ItemLists(cls)
    /\ out = Pending
\* engine.parse_ip_str(arg)
CallParseIpStr ==
    /\ out.exc = "pending"
    /\ out' = parse_ip_str(cls, arg)
    /\ UNCHANGED << engine_vars, object_vars, fetch_vars, session_vars, arg >>
SpecNorm == NormStart /\ [][CallParseIpStr]_vars

\* every query string of at most MaxQueryLen characters
QueryStrings == UNION {[1..n -> QueryAlphabet] : n \in 0..MaxQueryLen}
QueryStart ==
    /\ EngineInit
    /\ FetchInit
    /\ SessionInit
    /\ arg \in QueryStrings
    /\ out = Pending
\* engine.get_query(arg)
CallGetQuery ==
    /\ out.exc = "pending"
    /\ out' = Return(get_query(cls, arg))
    /\ UNCHANGED << engine_vars, object_vars, fetch_vars, session_vars, arg >>
SpecQuery == QueryStart /\ [][CallGetQuery]_vars

\* the totals the request builder is called with: 0, and for each page
\* number up to MaxBuildPages a total that fills the last page and one that
\* leaves it with a single result
BuildTotals(e) ==
    {0} \cup UNION { {(k - 1) * e.RESULTS_PER_PAGE + 1, k * e.RESULTS_PER_PAGE} :
                      k \in 1..MaxBuildPages }
BuildStart ==
    /\ EngineInit
    /\ FetchInit
    /\ SessionInit
    /\ arg \in [query : QueryStrings, total_count : BuildTotals(self)]
    /\ out = Pending
\* engine.prepare_request_list(arg.query, arg.total_count)
CallPrepareRequestList ==
    /\ out.exc = "pending"
    /\ out' = Return(prepare_request_list(cls, self, arg.query, arg.total_count))
    /\ UNCHANGED << engine_vars, object_vars, fetch_vars, session_vars, arg >>
SpecBuild == BuildStart /\ [][CallPrepareRequestList]_vars

(***************************************************************************)
(* Building requests, on the objects: which dict each statement of         *)
(* get_total_count and prepare_request_list reads, copies and writes.      *)
(***************************************************************************)
\* (a variant of copy that hands back the dict itself)
dict_copy_alias(h, ref) == [heap |-> h, ref |-> ref]
\* d.copy(): a new dict with d's items
dict_copy(h, ref) == [heap |-> Append(h, h[ref]), ref |-> Len(h) + 1]
\* params = self.PARAMS.copy(); params[self._QUERY_KWORD] = get_query(query)
params_with_query(h, refs, c, e, q) ==
    LET params == dict_copy(h, refs.PARAMS)
    IN  [ heap |-> dict_update(params.heap, params.ref,
                               e._QUERY_KWORD :> get_query(c, q)),
          ref  |-> params.ref ]
\* Request(method, url, params, headers).prepare(): the parameters are
\* encoded into the prepared request's URL, the headers are copied into a
\* dict of its own
prepare(h, method, url, params_ref, headers_ref) ==
    [ heap    |-> Append(h, h[headers_ref]),
      request |-> [ method  |-> method, url |-> url,
                    params  |-> h[params_ref],
                    headers |-> Len(h) + 1 ] ]
\* the loop of prepare_request_list
RECURSIVE heap_request_loop(_, _, _, _, _, _)
heap_request_loop(h, refs, e, params_ref, cursors, request_list) ==
    IF cursors = <<>> THEN [heap |-> h, request_list |-> request_list]
    ELSE LET params   == dict_copy(h, params_ref)
             updated  == dict_update(params.heap, params.ref,
                                     e._PAGE_KWORD :> Head(cursors))
             prepared == prepare(updated, "GET", e.SEARCH_ENDPOINT,
                                 params.ref, refs.HEADERS)
         IN  heap_request_loop(prepared.heap, refs, e, params.ref,
                               Tail(cursors),
                               Append(request_list, prepared.request))
heap_prepare_request_list(h, refs, c, e, q, total) ==
    LET params == params_with_query(h, refs, c, e, q)
    IN  heap_request_loop(params.heap, refs, e, params.ref,
                          page_iterator(c, e, total), <<>>)

\* a request the caller holds: the prepared request, the request the
\* builder was asked for, and whether the caller has changed it since
Held(request, asked) ==
    [request |-> request, asked |-> asked, mutated |-> FALSE]
ExtraKey == "x-extra"
ExtraValue == Str("changed")

\* get_total_count(q), up to the request it hands to session.get
BuildCountRequest(q) ==
    /\ calls < MaxBuildCalls
    /\ calls' = calls + 1
    /\ LET params   == params_with_query(heap, me, cls, self, q)
           prepared == prepare(params.heap, "GET", self.COUNT_ENDPOINT,
                               params.ref, me.HEADERS)
       IN  heap' = prepared.heap
    /\ UNCHANGED << engine_vars, me, other, built, fetch_vars, session_vars,
                    direct_vars >>
\* prepare_request_list(q, total): the caller keeps the requests
BuildPageRequests(q, total) ==
    /\ calls < MaxBuildCalls
    /\ calls' = calls + 1
    /\ LET made  == heap_prepare_request_list(heap, me, cls, self, q, total)
           asked == prepare_request_list(cls, self, q, total)
       IN  /\ heap' = made.heap
           /\ built' = built \o
                 [i \in 1..Len(made.request_list) |->
                     Held(made.request_list[i], asked[i])]
    /\ UNCHANGED << engine_vars, me, other, fetch_vars, session_vars,
                    direct_vars >>
\* the caller changes a request it holds: a header of it, and its URL's
\* parameters
MutateRequest(i) ==
    /\ i \in 1..Len(built)
    /\ ~built[i].mutated
    /\ Cardinality({j \in 1..Len(built) : built[j].mutated}) < MaxMutations
    /\ heap' = dict_update(heap, built[i].request.headers,
                           ExtraKey :> ExtraValue)
    /\ built' = [built EXCEPT
                   ![i].mutated = TRUE,
                   ![i].request.params = DictSet(@, ExtraKey, ExtraValue)]
    /\ UNCHANGED << engine_vars, me, other, calls, fetch_vars, session_vars,
                    direct_vars >>
HeapNext ==
    \/ \E q \in Queries : BuildCountRequest(q)
    \/ \E q \in Queries, total \in CountValues(self) \ {0} :
          BuildPageRequests(q, total)
    \/ \E i \in 1..(MaxBuildCalls * MaxPlannedPages) : MutateRequest(i)
SpecHeap == Init /\ [][HeapNext]_vars

(***************************************************************************)
(* Two engine instances, each running fetch_ip_str, interleaved at the     *)
(* points where a call waits for the network.  The variables of the fetch  *)
(* are those of the instance that runs; the other instance's are kept in   *)
(* other.  Both live in one process: one heap of dicts and sessions.       *)
(***************************************************************************)
\* the instance that runs, as it is kept while the other one runs
Running ==
    [ cls |-> cls, self |-> self, me |-> me, pc |-> pc, query |-> query,
      total_count |-> total_count, pages |-> pages, cur |-> cur,
      responses |-> responses, fetched |-> fetched, result |-> result,
      parsed |-> parsed, closes |-> closes, sent |-> sent,
      replies |-> replies ]
\* an instance of class c no call has been made on
Fresh(c, e, refs) ==
    [ cls |-> c, self |-> e, me |-> refs, pc |-> "idle", query |-> <<>>,
      total_count |-> -1, pages |-> <<>>, cur |-> 0, responses |-> <<>>,
      fetched |-> Pending, result |-> Pending, parsed |-> <<>>,
      closes |-> 0, sent |-> <<>>, replies |-> <<>> ]
\* two engines have been constructed, one after the other
PairInit ==
    /\ \E c1 \in Engines, c2 \in Engines :
          LET o1 == new_engine(<<>>, <<>>, c1, ApiKey)
              o2 == new_engine(o1.heap, o1.sessions, c2, PeerApiKey)
          IN  /\ heap = o2.heap
              /\ sessions = o2.sessions
              /\ cls = c1
              /\ me = o1.me
              /\ self = view(o2.heap, o1.me, Construct(c1, ApiKey))
              /\ other = Fresh(c2, view(o2.heap, o2.me, Construct(c2, PeerApiKey)),
                               o2.me)
    /\ NoCall
    /\ SessionInit
    /\ built = <<>>
    /\ calls = 0
    /\ arg = <<>>
    /\ out = Pending

\* the running instance waits, the other one goes on
Switch ==
    /\ other.cls # ""
    /\ other' = Running
    /\ cls' = other.cls
    /\ me' = other.me
    /\ self' = view(heap, other.me, other.self)
    /\ pc' = other.pc
    /\ query' = other.query
    /\ total_count' = other.total_count
    /\ pages' = other.pages
    /\ cur' = other.cur
    /\ responses' = other.responses
    /\ fetched' = other.fetched
    /\ result' = other.result
    /\ parsed' = other.parsed
    /\ closes' = other.closes
    /\ sent' = other.sent
    /\ replies' = other.replies
    /\ UNCHANGED << heap, sessions, built, calls, session_vars, direct_vars >>
\* each instance makes one fetch_ip_str call
PairCall(q) ==
    /\ pc = "idle"
    /\ Call(q)

\* what the endpoints answer the two instances
PairCountBodies(e) ==
    {Json(e._COUNT_KWORD :> n) :
        n \in {0} \cup {(k - 1) * e.RESULTS_PER_PAGE + 1 : k \in 1..MaxPairPages}}
      \cup {Json(ErrorObject)}
PairPageBodies(c, e) ==
    {Json(e._TOTAL_ITEMS_KWORD :> << i >>) : i \in PageItems(c)}
      \cup {Json(ErrorObject)}
PairAttempts(bodies) == {NoResponse} \cup {Response(200, b) : b \in bodies}

PairNext ==
    \/ \E q \in Queries : PairCall(q)
    \/ \E raw \in PairAttempts(PairCountBodies(self)) : CountReply(raw)
    \/ \E raw \in PairAttempts(PairPageBodies(cls, self)) : PageReply(raw)
    \/ Switch
SpecPair == PairInit /\ [][PairNext]_vars

(***************************************************************************)
(* What the properties speak of.                                           *)
(***************************************************************************)
\* the count request has been answered
CountAnswered == Len(replies) >= 1
CountReplyRaw == replies[1]
\* what the session brought back for the pages answered so far
PageReplies == SubSeq(replies, 2, Len(replies))
\* the requests sent for pages so far
PagesSent == SubSeq(sent, 2, Len(sent))

\* a request that failed in transport or with an HTTP error status
TransportFailed(raw) == raw.err \/ raw.status >= 400
\* a 2xx response whose body is not JSON, or is JSON without the field
DecodeFailed(raw, field) ==
    /\ ~TransportFailed(raw)
    /\ \/ ~raw.body.valid
       \/ field \notin DOMAIN raw.body.json
\* a 2xx response whose JSON body has the field
Successful(raw, field) ==
    /\ ~TransportFailed(raw)
    /\ raw.body.valid
    /\ field \in DOMAIN raw.body.json

\* the result lists of the successful pages, concatenated in page order
RECURSIVE ItemsOfSuccessful(_)
ItemsOfSuccessful(rs) ==
    IF rs = <<>> THEN <<>>
    ELSE (IF Successful(Head(rs), self._TOTAL_ITEMS_KWORD)
          THEN Head(rs).body.json[self._TOTAL_ITEMS_KWORD] ELSE <<>>)
         \o ItemsOfSuccessful(Tail(rs))

\* the identity a raw item of an engine carries: its IP, None when the
\* field is not there
ItemIdentity(c, item) ==
    CASE c = "shodan"  -> IF "ip_str" \in DOMAIN item THEN item.ip_str ELSE NoneVal
      [] c = "netlas"  -> IF "data" \in DOMAIN item /\ "ip" \in DOMAIN item.data
                          THEN item.data.ip ELSE NoneVal
      [] c = "zoomeye" -> IF "ip" \in DOMAIN item THEN item.ip ELSE NoneVal
      [] c = "fofa"    -> IF Len(item) >= 2 THEN item[2] ELSE NoneVal

\* every planned page so far was requested in turn: with k pages answered,
\* pages 1..k+1 (1..k once all are answered) have been sent, in plan order
PagesRequestedInTurn ==
    /\ Len(PagesSent) = Min(Len(PageReplies) + 1, Len(pages))
    /\ \A i \in 1..Len(PagesSent) :
          PagesSent[i].kind = "page" /\ PagesSent[i].request = pages[i]
\* _fetch_all has not raised
FetchAllNotRaised == fetched.exc \in {"pending", ""}

(***************************************************************************)
(* C1: whatever the count request ends in -- a transport error, an HTTP    *)
(* error status, a body that is not JSON, a JSON body without the count    *)
(* field -- get_total_count returns 0 and fetch_ip_str returns an empty    *)
(* result without raising.                                                 *)
(***************************************************************************)
C1_CountFailsSoft ==
    ( /\ CountAnswered
      /\ \/ TransportFailed(CountReplyRaw)
         \/ DecodeFailed(CountReplyRaw, self._COUNT_KWORD) )
    => /\ pc = "done"
       /\ total_count = 0
       /\ Returned(result, {})

(***************************************************************************)
(* C2: when every page answered so far either succeeded or failed with a   *)
(* transport error or an HTTP error status, _fetch_all has not raised,     *)
(* every later planned page was still requested, and every item of a       *)
(* successful page is in the aggregate (and its IP in the returned set).   *)
(***************************************************************************)
C2_FailedPagesAreSkipped ==
    ( /\ CountAnswered
      /\ total_count > 0
      /\ \A i \in 1..Len(PageReplies) :
            \/ TransportFailed(PageReplies[i])
            \/ Successful(PageReplies[i], self._TOTAL_ITEMS_KWORD) )
    => /\ FetchAllNotRaised
       /\ PagesRequestedInTurn
       /\ responses = ItemsOfSuccessful(PageReplies)
       /\ Len(PageReplies) = Len(pages) => Returned(fetched, responses)
       /\ pc = "done" =>
             \A i \in 1..Len(responses) :
                ItemIdentity(cls, responses[i]) \in result.val

\* two pages planned, the first failed in transport, the second brought
\* items, and the call returned
C2_Witness ==
    /\ pc = "done"
    /\ Len(pages) = 2
    /\ Len(PageReplies) = 2
    /\ PageReplies[1].err
    /\ Successful(PageReplies[2], self._TOTAL_ITEMS_KWORD)
    /\ responses # <<>>
    /\ result.val # {}

(***************************************************************************)
(* C3: a page whose 2xx body is not JSON, or is JSON without the results   *)
(* list, is skipped like a failed page: it adds no items, _fetch_all does  *)
(* not raise, and the remaining planned pages are still requested.         *)
(***************************************************************************)
C3_UndecodablePagesAreSkipped ==
    ( /\ CountAnswered
      /\ total_count > 0
      /\ \E i \in 1..Len(PageReplies) :
            DecodeFailed(PageReplies[i], self._TOTAL_ITEMS_KWORD) )
    => /\ FetchAllNotRaised
       /\ PagesRequestedInTurn
       /\ responses = ItemsOfSuccessful(PageReplies)

(***************************************************************************)
(* C4: when the count request brings a genuine zero or fails, the total    *)
(* count is 0; and whenever the total count is 0, fetch_ip_str returns the *)
(* empty set, no page request is built, and the count request is the only  *)
(* request sent.                                                           *)
(***************************************************************************)
GenuineZero(raw) ==
    /\ Successful(raw, self._COUNT_KWORD)
    /\ raw.body.json[self._COUNT_KWORD] = 0
C4_ZeroCountShortCircuits ==
    /\ ( /\ CountAnswered
         /\ \/ GenuineZero(CountReplyRaw)
            \/ TransportFailed(CountReplyRaw)
            \/ ~CountReplyRaw.body.valid )
       => total_count = 0
    /\ total_count = 0
       => /\ pc = "done"
          /\ Returned(result, {})
          /\ pages = <<>>
          /\ Len(sent) = 1
          /\ sent[1].kind = "count"
          /\ sent[1].request = count_request(cls, self, query)

\* a fetch that ended on a genuine zero
C4_Witness ==
    /\ pc = "done"
    /\ total_count = 0
    /\ CountAnswered
    /\ GenuineZero(CountReplyRaw)
    /\ Returned(result, {})

(***************************************************************************)
(* C5: for a total T > 0, with R = RESULTS_PER_PAGE and                    *)
(* P = min(ceil(T / R), MAX_PAGES_COUNT), the page-index planner yields    *)
(* 1, 2, ..., P and the offset planner (Netlas) 0, R, ..., (P - 1) * R;    *)
(* never more than 2500 cursors; a T that R does not divide adds one       *)
(* partial page.                                                           *)
(***************************************************************************)
\* ceil(T / R) capped
PlannedPages(T, R, cap) == Min((T + R - 1) \div R, cap)
C5_PlannerCursors ==
    (out.exc = "" /\ arg > 0)
    => LET R == self.RESULTS_PER_PAGE
           P == PlannedPages(arg, R, self.MAX_PAGES_COUNT)
       IN  /\ self.MAX_PAGES_COUNT = 2500
           /\ Len(out.val) = P
           /\ P >= 1 /\ P <= 2500
           /\ \A i \in 1..P :
                 out.val[i] = IF cls = "netlas" THEN (i - 1) * R ELSE i
           /\ (arg % R # 0 /\ arg \div R < 2500) => P = (arg \div R) + 1
           /\ (arg % R = 0 /\ arg \div R <= 2500) => P = arg \div R

\* the offset planner called with more than 2500 pages' worth of results
C5_Witness ==
    /\ out.exc = ""
    /\ cls = "netlas"
    /\ arg > 2500 * self.RESULTS_PER_PAGE
    /\ Len(out.val) = 2500
    /\ out.val[2500] = 2499 * self.RESULTS_PER_PAGE

(***************************************************************************)
(* C6: each engine's planner divides by the results-per-page its           *)
(* constructor configures (Shodan 100, Netlas 20, Zoomeye 20, Fofa 1000);  *)
(* with a count of 45 Zoomeye plans 1, 2, 3 and Netlas plans 0, 20, 40.    *)
(***************************************************************************)
ConfiguredResultsPerPage(c) ==
    CASE c = "shodan" -> 100 [] c = "netlas" -> 20
      [] c = "zoomeye" -> 20 [] c = "fofa" -> 1000
C6_PlannerUsesConfiguredPageSize ==
    (out.exc = "" /\ arg > 0)
    => /\ Len(out.val) = PlannedPages(arg, ConfiguredResultsPerPage(cls), 2500)
       /\ (arg = 45 /\ cls = "zoomeye") => out.val = <<1, 2, 3>>
       /\ (arg = 45 /\ cls = "netlas") => out.val = <<0, 20, 40>>

C8_MissingIdentityTolerated ==
    out.exc # "pending"
    => /\ out.exc = ""
       /\ out.val = {ItemIdentity(cls, arg[i]) : i \in 1..Len(arg)}

(***************************************************************************)
(* C9: for every IP x, each engine's item carrying x (Shodan ip_str,       *)
(* Netlas data.ip, Zoomeye ip, Fofa index 1) normalizes to the same        *)
(* one-element set, whose element is the identity record (x, absent).      *)
(***************************************************************************)
WellFormedItem(c, ip) ==
    CASE c = "shodan"  -> [ip_str |-> Str(ip), port |-> 80]
      [] c = "netlas"  -> [data |-> [ip |-> Str(ip)]]
      [] c = "zoomeye" -> [ip |-> Str(ip), port |-> 80]
      [] c = "fofa"    -> <<Str("host"), Str(ip)>>
C9_SameCanonicalRecord ==
    \A x \in IPs :
       (out.exc # "pending" /\ arg = <<WellFormedItem(cls, x)>>)
       => Returned(out, {IdentityRecord(Str(x), NoneVal)})

(***************************************************************************)
(* C10: one request is attempted at most 6 times -- the first attempt and  *)
(* the 5 retries of Retry(total=5) -- when every attempt brings a status   *)
(* of {500, 502, 503, 504}; after the last one the request has failed with *)
(* a RequestException; a response with another status, a 2xx with a        *)
(* malformed or empty body among them, is returned without a retry.        *)
(***************************************************************************)
TransientStatus(raw) == ~raw.err /\ raw.status \in {500, 502, 503, 504}
RetryRules(most) ==
    /\ attempts <= most
    /\ (out.exc # "pending" /\ TransientStatus(last_attempt))
       => /\ attempts = most
          /\ out.exc = "RetryError"
          /\ out.exc \in RequestException
    /\ (attempts >= 1 /\ ~last_attempt.err /\ ~TransientStatus(last_attempt))
       => /\ out.exc = ""
          /\ out.val = last_attempt
    /\ (attempts >= 1 /\ out.exc = "pending")
       => (last_attempt.err \/ TransientStatus(last_attempt))
C10_AtMostSixAttempts == RetryRules(6)

\* the claim as stated: at most 5 attempts in total
C10_AtMostFiveAttempts == RetryRules(5)

\* six attempts, all answered 503, and the request has failed
C10_Witness ==
    /\ attempts = 6
    /\ last_attempt.status = 503
    /\ out.exc = "RetryError"

(***************************************************************************)
(* C11: for every query string q, standard Base64 decoding of              *)
(* FofaEngine.query_to_bs64(q) gives back exactly q; FofaEngine.get_query  *)
(* returns query_to_bs64(q), and every other engine's get_query returns q. *)
(***************************************************************************)
\* standard Base64 decoding (RFC 4648): the value of a digit, the bytes of
\* one group of four characters, the bytes of a text
B64Value(c) == (CHOOSE i \in 1..64 : B64Alphabet[i] = c) - 1
B64Digit(c) == \E i \in 1..64 : B64Alphabet[i] = c
b64decode_group(g) ==
    LET v3 == IF g[3] = "=" THEN 0 ELSE B64Value(g[3])
        v4 == IF g[4] = "=" THEN 0 ELSE B64Value(g[4])
        n  == B64Value(g[1]) * 262144 + B64Value(g[2]) * 4096 + v3 * 64 + v4
        bytes == << n \div 65536, (n \div 256) % 256, n % 256 >>
    IN  IF g[3] = "=" THEN SubSeq(bytes, 1, 1)
        ELSE IF g[4] = "=" THEN SubSeq(bytes, 1, 2)
        ELSE bytes
RECURSIVE b64decode(_)
b64decode(text) ==
    IF text = <<>> THEN <<>>
    ELSE b64decode_group(SubSeq(text, 1, 4))
           \o b64decode(SubSeq(text, 5, Len(text)))
\* a well-formed Base64 text: groups of four digits, "=" only as the last
\* one or two characters
B64WellFormed(text) ==
    /\ Len(text) % 4 = 0
    /\ \A i \in 1..Len(text) :
          \/ B64Digit(text[i])
          \/ /\ text[i] = "="
             /\ i >= Len(text) - 1
             /\ i = Len(text) - 1 => text[Len(text)] = "="
\* bytes.decode(): the characters of the bytes
DecodesTo(bytes, q) ==
    /\ Len(bytes) = Len(q)
    /\ \A i \in 1..Len(q) : bytes[i] = Ord(q[i])
\* C11: the encoded query decodes back to the query; only Fofa encodes
C11_QueryEncoderRoundTrips ==
    out.exc = ""
    => /\ B64WellFormed(query_to_bs64(arg))
       /\ DecodesTo(b64decode(query_to_bs64(arg)), arg)
       /\ cls = "fofa" => out.val = query_to_bs64(arg)
       /\ cls # "fofa" => out.val = arg

\* the encoder called on a query whose last group is one byte short
C11_Witness ==
    /\ out.exc = ""
    /\ cls = "fofa"
    /\ arg = <<"i", "p", ":", "1">>
    /\ out.val = <<"a", "X", "A", "6", "M", "Q", "=", "=">>

(***************************************************************************)
(* C12: within one fetch the session is not closed before every request of *)
(* the fetch -- the count request and all page requests -- has completed:  *)
(* no request is handed to the session after a close of the same fetch.    *)
(***************************************************************************)
C12_NoRequestAfterClose ==
    /\ pc \in {"count", "page"} => closes = 0
    /\ \A i \in 1..Len(sent) : sent[i].closes = 0

(***************************************************************************)
(* C13: on every exit of fetch_ip_str -- normal return, zero-count short   *)
(* circuit, failure of every page, an exception out of the count request,  *)
(* the page loop or the normalizer -- the session has been closed, and     *)
(* closed after the last request the call handed to it.                    *)
(***************************************************************************)
C13_SessionClosedOnExit ==
    pc \in {"done", "raised"}
    => /\ closes >= 1
       /\ closes > sent[Len(sent)].closes

\* an exception escaped the page loop: the second request of the call, a
\* page, brought a JSON body without the results list
C13_Witness ==
    /\ pc = "raised"
    /\ result.exc = "KeyError"
    /\ Len(sent) = 2
    /\ sent[2].kind = "page"
    /\ closes > sent[2].closes

(***************************************************************************)
(* C14: in a fetch with a positive count the page requests sent are the    *)
(* planned ones, one at a time in plan order, each planned page sent       *)
(* exactly once whatever the earlier pages ended in, none sent again.      *)
(***************************************************************************)
C14_PagesSentArePlan ==
    (CountAnswered /\ total_count > 0)
    => /\ PagesRequestedInTurn
       /\ pc \in {"done", "raised"} =>
             /\ Len(PagesSent) = Len(pages)
             /\ \A i \in 1..Len(pages) : PagesSent[i].request = pages[i]

(***************************************************************************)
(* C15: a fetch_ip_str call issues exactly one count request, its first    *)
(* request, with the default parameters plus the (encoded) query and no    *)
(* page cursor; no page request is built before it has completed; and by   *)
(* the time a page request has been sent the whole plan is built.          *)
(***************************************************************************)
C15_OneCountRequestThenPlan ==
    pc # "idle"
    => /\ Len(sent) >= 1
       /\ sent[1].kind = "count"
       /\ \A i \in 2..Len(sent) : sent[i].kind = "page"
       /\ LET r == sent[1].request
          IN  /\ r.method = "GET"
              /\ r.url = self.COUNT_ENDPOINT
              /\ r.headers = self.HEADERS
              /\ DOMAIN r.params = DOMAIN self.PARAMS \cup {self._QUERY_KWORD}
              /\ \A k \in DOMAIN self.PARAMS : r.params[k] = self.PARAMS[k]
              /\ r.params[self._QUERY_KWORD] = get_query(cls, query)
              /\ self._PAGE_KWORD \notin DOMAIN r.params
       /\ ~CountAnswered => (pages = <<>> /\ Len(sent) = 1)
       /\ Len(sent) >= 2 =>
             /\ CountAnswered
             /\ pages = prepare_request_list(cls, self, query, total_count)
             /\ Len(pages) >= Len(PagesSent)

\* Fofa: the count request carried the encoded query, two pages were
\* planned and the first of them has just been sent
C15_Witness ==
    /\ cls = "fofa"
    /\ pc = "page"
    /\ Len(sent) = 2
    /\ Len(pages) = 2
    /\ sent[1].request.params.qbase64 = query_to_bs64(query)

(***************************************************************************)
(* C16: in a fetch_ip_str call that completes, parse_ip_str is called      *)
(* exactly once, after the last planned page request has been handled, on  *)
(* the concatenation, in plan order and in-page order, of the result lists *)
(* of exactly the successful pages.                                        *)
(***************************************************************************)
C16_NormalizerCalledOnceOnAggregate ==
    /\ Len(parsed) <= 1
    /\ pc \in {"count", "page"} => parsed = <<>>
    /\ Len(parsed) = 1 =>
          /\ Len(PageReplies) = Len(pages)
          /\ parsed[1] = ItemsOfSuccessful(PageReplies)
    /\ pc = "done" =>
          /\ Len(parsed) = 1
          /\ result = parse_ip_str(cls, parsed[1])

\* two pages, the first failed, the second listed two different items,
\* and the normalizer was called on those two, in their order
C16_Witness ==
    /\ pc = "done"
    /\ Len(PageReplies) = 2
    /\ TransportFailed(PageReplies[1])
    /\ Successful(PageReplies[2], self._TOTAL_ITEMS_KWORD)
    /\ Len(parsed) = 1
    /\ Len(parsed[1]) = 2
    /\ parsed[1][1] # parsed[1][2]
    /\ parsed[1] = PageReplies[2].body.json[self._TOTAL_ITEMS_KWORD]

(***************************************************************************)
(* C17: for every query and every planned cursor c, the request            *)
(* prepare_request_list builds for c is a GET to SEARCH_ENDPOINT with the  *)
(* engine's HEADERS, and its parameters are exactly PARAMS extended with   *)
(* _QUERY_KWORD -> get_query(query) and _PAGE_KWORD -> c: one request per  *)
(* cursor, in plan order, none carrying another page's cursor.             *)
(***************************************************************************)
C17_PageRequestShape ==
    out.exc = ""
    => LET cursors == page_iterator(cls, self, arg.total_count)
       IN  /\ Len(out.val) = Len(cursors)
           /\ \A i \in 1..Len(cursors) :
                 LET r == out.val[i]
                 IN  /\ r.method = "GET"
                     /\ r.url = self.SEARCH_ENDPOINT
                     /\ r.headers = self.HEADERS
                     /\ DOMAIN r.params =
                           DOMAIN self.PARAMS
                             \cup {self._QUERY_KWORD, self._PAGE_KWORD}
                     /\ \A k \in DOMAIN self.PARAMS :
                           r.params[k] = self.PARAMS[k]
                     /\ r.params[self._QUERY_KWORD] = get_query(cls, arg.query)
                     /\ r.params[self._PAGE_KWORD] = cursors[i]
                     /\ \A j \in 1..Len(cursors) :
                           j # i => r.params[self._PAGE_KWORD] # cursors[j]

\* Netlas, three pages: the third request carries the offset 40 and the
\* default parameters
C17_Witness ==
    /\ out.exc = ""
    /\ cls = "netlas"
    /\ arg.total_count = 41
    /\ Len(out.val) = 3
    /\ out.val[3].params.start = 40
    /\ out.val[3].params.fields = Str("ip")
    /\ out.val[3].params.q = arg.query

(***************************************************************************)
(* C18: building requests changes neither the engine profile nor an        *)
(* earlier request: after any get_total_count and prepare_request_list     *)
(* calls PARAMS and HEADERS are what the constructor made them (without    *)
(* the query and page keys), and a request already built keeps its         *)
(* parameters and headers while others are built or changed.               *)
(***************************************************************************)
C18_BuildingLeavesProfileAndRequestsAlone ==
    /\ heap[me.PARAMS] = NewEngine(cls).PARAMS
    /\ heap[me.HEADERS] = NewEngine(cls).HEADERS
    /\ self._QUERY_KWORD \notin DOMAIN heap[me.PARAMS]
    /\ self._PAGE_KWORD \notin DOMAIN heap[me.PARAMS]
    /\ self._QUERY_KWORD \notin DOMAIN heap[me.HEADERS]
    /\ self._PAGE_KWORD \notin DOMAIN heap[me.HEADERS]
    /\ \A i \in 1..Len(built) :
          LET r == built[i].request
              a == built[i].asked
          IN  /\ r.headers # me.HEADERS
              /\ \A j \in 1..Len(built) : j # i => built[j].request.headers # r.headers
              /\ r.method = a.method
              /\ r.url = a.url
              /\ IF built[i].mutated
                 THEN /\ r.params = DictSet(a.params, ExtraKey, ExtraValue)
                      /\ heap[r.headers] = DictSet(a.headers, ExtraKey, ExtraValue)
                 ELSE /\ r.params = a.params
                      /\ heap[r.headers] = a.headers

\* two builder calls were made and the first of the requests built was
\* changed before or after the last call: the other requests and the
\* profile are as they were
C18_Witness ==
    /\ calls = 2
    /\ Len(built) >= 3
    /\ built[1].mutated
    /\ ~built[2].mutated
    /\ built[2].request.params = built[2].asked.params
    /\ heap[me.PARAMS] = NewEngine(cls).PARAMS

(***************************************************************************)
(* C19: two engine instances, of the same class or of different ones,      *)
(* running fetch_ip_str in any interleaving share no mutable state: each   *)
(* has PARAMS, HEADERS and a session of its own, and the requests an       *)
(* instance sends, the closes of its session and its result are those it   *)
(* would produce if the other instance did not run.                        *)
(***************************************************************************)
\* what an instance does to its session in one call: before each request
\* the closes made since the request before it, the request, and at the
\* end the closes made after the last request
RECURSIVE OwnEvents(_, _, _)
OwnEvents(requests, closed, end) ==
    IF requests = <<>> THEN [k \in 1..(end - closed) |-> CloseEvent]
    ELSE [k \in 1..(Head(requests).closes - closed) |-> CloseEvent]
           \o << SendEvent(Head(requests).request) >>
           \o OwnEvents(Tail(requests), Head(requests).closes, end)
\* the result lists of an instance's successful pages, in page order
RECURSIVE ItemsOfPages(_, _)
ItemsOfPages(rs, field) ==
    IF rs = <<>> THEN <<>>
    ELSE (IF Successful(Head(rs), field) THEN Head(rs).body.json[field]
          ELSE <<>>)
         \o ItemsOfPages(Tail(rs), field)
\* instance x behaves as the only instance of its class and key would
AsIfAlone(x) ==
    LET alone == Construct(x.cls, x.self.api_key)
        plan  == prepare_request_list(x.cls, alone, x.query, x.total_count)
    IN  /\ heap[x.me.PARAMS] = alone.PARAMS
        /\ heap[x.me.HEADERS] = alone.HEADERS
        /\ x.self = alone
        /\ sessions[x.me.session] = OwnEvents(x.sent, 0, x.closes)
        /\ x.pc # "idle" =>
              /\ x.sent[1].request = count_request(x.cls, alone, x.query)
              /\ \A i \in 2..Len(x.sent) : x.sent[i].request = plan[i - 1]
        /\ x.pc = "count" => x.closes = 0
        /\ x.pc = "page" => x.closes = 1
        /\ x.pc \in {"done", "raised"} =>
              x.closes = IF Len(x.sent) = 1 THEN 1 ELSE 2
        /\ x.pc = "done" =>
              x.result = parse_ip_str(x.cls,
                            ItemsOfPages(SubSeq(x.replies, 2, Len(x.replies)),
                                         alone._TOTAL_ITEMS_KWORD))
\* C19: the two instances hold different objects and each behaves as if
\* it were alone
C19_InstancesShareNothing ==
    /\ me.PARAMS # other.me.PARAMS
    /\ me.HEADERS # other.me.HEADERS
    /\ me.PARAMS # other.me.HEADERS
    /\ me.HEADERS # other.me.PARAMS
    /\ me.PARAMS # me.HEADERS
    /\ me.session # other.me.session
    /\ self.api_key # other.self.api_key
    /\ AsIfAlone(Running)
    /\ AsIfAlone(other)

\* two instances of one class, both with a page request outstanding, then
\* the first one's call returned: its session saw its own two requests
\* and two closes
C19_Witness ==
    /\ cls = other.cls
    /\ pc = "done"
    /\ Len(sent) = 2
    /\ result.val # {}
    /\ other.pc = "page"
    /\ Len(sessions[me.session]) = 4
    /\ Len(sessions[other.me.session]) = 3
    /\ sent[1].request.params # other.sent[1].request.params

====
